---- MODULE Spec2Model ----
(***************************************************************************)
(* State-machine model of the news briefing front-end: the application     *)
(* controller (App.tsx) and the article input component (ArticleInput).    *)
(* Texts are sequences of tokens so that trim(), includes() and the feed   *)
(* formatting are computed rather than assumed.                            *)
(***************************************************************************)
EXTENDS Integers, Sequences, FiniteSets, TLC

\* ---------------------------------------------------------------- bounds
MaxTextLen == 1        \* longest text the user types, in characters
NumSummaries == 1      \* distinct non-empty texts the summarizer may return
MaxOutstanding == 2    \* remote calls of one kind in flight at once
NumSources == 1        \* how many entries of SOURCES are offered
MaxTimers == 1         \* armed status-clear timers
MaxArticles == 6       \* most articles one feed response carries

\* ------------------------------------------------------------- constants
NULL == "null"

IDLE == "IDLE"
GENERATING_SUMMARY == "GENERATING_SUMMARY"
READY == "READY"
GENERATING_AUDIO == "GENERATING_AUDIO"
ERROR == "ERROR"
AppState == {IDLE, GENERATING_SUMMARY, READY, GENERATING_AUDIO, ERROR}

Languages == {"zh-CN", "en"}
ApiKeys == {"", "key"}

\* types.ts is not among the sources: the defaults are taken to be Chinese with
\* no API keys
DEFAULT_SETTINGS ==
  [language |-> "zh-CN", llm |-> [apiKey |-> ""], tts |-> [apiKey |-> ""]]

\* ------------------------------------------------------------------ text
Chars == {" ", "a"}

IsSpace(c) == c \in {" ", "\n", "\t"}

RECURSIVE TrimStart(_)
TrimStart(s) ==
  IF s = <<>> THEN <<>>
  ELSE IF IsSpace(Head(s)) THEN TrimStart(Tail(s)) ELSE s

RECURSIVE TrimEnd(_)
TrimEnd(s) ==
  IF s = <<>> THEN <<>>
  ELSE IF IsSpace(s[Len(s)]) THEN TrimEnd(SubSeq(s, 1, Len(s) - 1)) ELSE s

\* a trim that returns its argument: the guards then test !textInput
Trim_NotApplied(s) == s

\* String.prototype.trim
Trim(s) == TrimEnd(TrimStart(s))

\* String.prototype.includes, for a one-token needle
Includes(s, tok) == \E i \in 1..Len(s) : s[i] = tok

\* what the user can type into the textarea
UserTexts == UNION {[1..n -> Chars] : n \in 0..MaxTextLen}

\* ------------------------------------------------------- remote services
\* texts the summarization service may resolve with (the empty text included)
Summaries == {""} \cup {"summary" \o ToString(i) : i \in 1..NumSummaries}

\* values a summarization or speech call may reject with
Errors == {[message |-> <<"Request failed">>],
           [message |-> <<"blocked: ", "SAFETY">>]}

SAFETY_ZH == <<"zh-CN: content blocked by safety filters">>
SAFETY_EN == <<"Content blocked by safety filters.">>

\* String(error) of an Error whose message is empty
StringOfError(error) == <<"Error">>

\* the decoded buffer generateSpeech resolves with, tagged by the text it reads
BufferOf(text) == [present |-> TRUE, from |-> text]

\* useState<AudioBuffer | null>(null)
NO_BUFFER == [present |-> FALSE, from |-> ""]

CallIds == 1..MaxOutstanding

\* the identity given to a newly started call: the smallest one not in flight
FreshId(calls) ==
  CHOOSE i \in CallIds :
    /\ \A c \in calls : c.id # i
    /\ \A j \in CallIds : (\A c \in calls : c.id # j) => i <= j

\* ----------------------------------------------------------------- feeds
AllSources ==
  << [name |-> "ITHome", url |-> "https://www.ithome.com/rss/"],
     [name |-> "36Kr", url |-> "https://36kr.com/feed"],
     [name |-> "sspai", url |-> "https://sspai.com/feed"],
     [name |-> "Solidot", url |-> "http://solidot.org/index.rss"],
     [name |-> "Engadget", url |-> "https://www.engadget.com/rss.xml"],
     [name |-> "The Verge", url |-> "https://www.theverge.com/rss/index.xml"],
     [name |-> "Wired", url |-> "https://www.wired.com/feed/rss"],
     [name |-> "TechCrunch", url |-> "https://techcrunch.com/feed/"] >>

SOURCES == SubSeq(AllSources, 1, NumSources)

SourceUrls == {SOURCES[i].url : i \in 1..Len(SOURCES)}

\* Array.prototype.find over SOURCES: whether it finds an entry, and the entry
HasSource(url) == \E i \in 1..Len(SOURCES) : SOURCES[i].url = url

FindSource(url) ==
  SOURCES[CHOOSE i \in 1..Len(SOURCES) :
            /\ SOURCES[i].url = url
            /\ \A j \in 1..(i - 1) : SOURCES[j].url # url]

SliceLimit == 5

Min(a, b) == IF a < b THEN a ELSE b

\* one article of the response, formatted as a titled block
FormatArticle(a, i) ==
  <<"# Article ", ToString(i), ": ", a.title, "\n\n">>
    \o (IF Trim(a.content) # <<>> THEN Trim(a.content)
        ELSE <<"Content not available.">>)

RECURSIVE JoinBlocks(_, _)
JoinBlocks(blocks, sep) ==
  IF blocks = <<>> THEN <<>>
  ELSE IF Len(blocks) = 1 THEN blocks[1]
  ELSE blocks[1] \o sep \o JoinBlocks(Tail(blocks), sep)

\* the assembly with the slice left out: every article of the response
AssembleFeed_NoSlice(sourceName, articles) ==
  LET blocks == [i \in 1..Len(articles) |-> FormatArticle(articles[i], i)]
  IN <<"[Source: ", sourceName, "]\n\n">> \o JoinBlocks(blocks, <<"\n\n---\n\n">>)

\* articles.slice(0, 5).map(...).join('\n\n---\n\n'), with the source prefix
AssembleFeed(sourceName, articles) ==
  LET n == Min(SliceLimit, Len(articles))
      blocks == [i \in 1..n |-> FormatArticle(articles[i], i)]
  IN <<"[Source: ", sourceName, "]\n\n">> \o JoinBlocks(blocks, <<"\n\n---\n\n">>)

\* answers of the feed endpoint: HTTP status, and the parsed body (a missing
\* body parses to null, otherwise to the article array)
FeedResponses ==
  {[ok |-> FALSE, isNull |-> TRUE, articles |-> <<>>],
   [ok |-> FALSE, isNull |-> FALSE,
    articles |-> <<[title |-> "t1", content |-> <<"a">>]>>],
   [ok |-> TRUE, isNull |-> TRUE, articles |-> <<>>],
   [ok |-> TRUE, isNull |-> FALSE, articles |-> <<>>],
   [ok |-> TRUE, isNull |-> FALSE,
    articles |-> <<[title |-> "t1", content |-> <<"a">>]>>]}

\* how a feed request settles: fetch() or response.json() throws, or an answer
FeedOutcomes ==
  {[threw |-> TRUE, response |-> [ok |-> FALSE, isNull |-> TRUE, articles |-> <<>>]]}
    \cup {[threw |-> FALSE, response |-> r] : r \in FeedResponses}

\* OK answers carrying 1..MaxArticles articles, with blank and padded contents
FeedArticles ==
  {[title |-> "t1", content |-> <<"a">>],
   [title |-> "t2", content |-> <<" ">>],
   [title |-> "t1", content |-> <<" ", "a", " ">>]}

RECURSIVE ArticleLists(_)
ArticleLists(n) ==
  IF n = 0 THEN {<<>>}
  ELSE {<<a>> \o l : a \in FeedArticles, l \in ArticleLists(n - 1)}

AssembleOutcomes ==
  {[threw |-> FALSE, response |-> [ok |-> TRUE, isNull |-> FALSE, articles |-> l]] :
     l \in UNION {ArticleLists(n) : n \in 1..MaxArticles}}

STATUS_FAILED == <<"Failed to fetch">>

ConnectingStatus(sourceName) == <<"Connecting to ", sourceName, "...">>

\* -------------------------------------------------------------- settings
\* JSON.stringify of a settings object, as a token sequence
JSONStringify(s) ==
  <<"{", "language", s.language, "llm.apiKey", s.llm.apiKey,
    "tts.apiKey", s.tts.apiKey, "}">>

\* whether JSON.parse accepts the stored text
JSONWellFormed(text) ==
  /\ Len(text) = 8
  /\ text[1] = "{" /\ text[8] = "}"
  /\ text[2] = "language" /\ text[4] = "llm.apiKey" /\ text[6] = "tts.apiKey"

JSONParse(text) ==
  [language |-> text[3], llm |-> [apiKey |-> text[5]], tts |-> [apiKey |-> text[7]]]

MALFORMED == <<"{", "language">>

\* localStorage.getItem of a key never set (null, falsy like the empty text)
NO_ITEM == <<>>

\* the settings the user may save from the settings dialog
SavableSettings ==
  {[language |-> l, llm |-> [apiKey |-> k], tts |-> [apiKey |-> k]] :
     l \in Languages, k \in ApiKeys}

\* every settings object over the modelled fields, the two keys independent
AllSettings ==
  [language : Languages, llm : [apiKey : ApiKeys], tts : [apiKey : ApiKeys]]

\* ----------------------------------------------------------------- state
VARIABLES
  textInput, summary, audioBuffer, appState, errorDetails,
  settings, isSettingsLoaded, audioContextRef,
  localStorage,
  isFetchingNews, fetchStatus, selectedSourceUrl,
  summaryCalls, speechCalls, fetchCalls, timers,
  lastEvent, lastOutcome, latestSummaryCall, observed

vars ==
  <<textInput, summary, audioBuffer, appState, errorDetails,
    settings, isSettingsLoaded, audioContextRef,
    localStorage,
    isFetchingNews, fetchStatus, selectedSourceUrl,
    summaryCalls, speechCalls, fetchCalls, timers,
    lastEvent, lastOutcome, latestSummaryCall, observed>>

\* lastEvent, lastOutcome, latestSummaryCall and observed are history
\* variables, read by no action: latestSummaryCall is the id of the
\* summarization call started last (0 before the first), when "summaryStarted"
\* is observed; lastEvent names the handler that ran last when it is one of the
\* observed handlers, and is "other" after any other step; lastOutcome holds
\* the outcome of the feed request that settled in the last step, when
\* "fetchSettled" is observed, and is empty otherwise; when "changeText" is
\* observed too it also holds the article text and the event that the
\* settling found; observed never changes
Observe(event) == IF event \in observed THEN event ELSE "other"

ObserveStarted(before, after) ==
  IF "summaryStarted" \in observed /\ after \ before # {}
  THEN (CHOOSE c \in after \ before : TRUE).id
  ELSE latestSummaryCall

ObserveOutcome(outcome) ==
  IF "fetchSettled" \notin observed THEN <<>>
  ELSE IF "changeText" \in observed THEN <<outcome, textInput, lastEvent>>
  ELSE <<outcome>>

appVars == <<textInput, summary, audioBuffer, appState, errorDetails>>
settingsVars == <<settings, isSettingsLoaded, localStorage>>
feedVars == <<isFetchingNews, fetchStatus, selectedSourceUrl, fetchCalls, timers>>
callVars == <<summaryCalls, speechCalls, audioContextRef>>

InitProgram ==
  /\ textInput = <<>>
  /\ summary = ""
  /\ audioBuffer = NO_BUFFER
  /\ appState = IDLE
  /\ errorDetails = <<>>
  /\ settings = DEFAULT_SETTINGS
  /\ isSettingsLoaded = FALSE
  /\ audioContextRef = NULL
  /\ localStorage \in {NO_ITEM, MALFORMED, JSONStringify(DEFAULT_SETTINGS)}
  /\ isFetchingNews = FALSE
  /\ fetchStatus = <<>>
  /\ selectedSourceUrl = ""
  /\ summaryCalls = {}
  /\ speechCalls = {}
  /\ fetchCalls = {}
  /\ timers = 0
  /\ lastEvent = "other"
  /\ lastOutcome = <<>>
  /\ latestSummaryCall = 0

\* ------------------------------------------------------ settings actions
\* the spread with its operands exchanged: {...over, ...base}
SpreadMerge_DefaultsWin(base, over) ==
  [k \in (DOMAIN base) \cup (DOMAIN over) |->
     IF k \in DOMAIN base THEN base[k] ELSE over[k]]

\* {...base, ...over}
SpreadMerge(base, over) ==
  [k \in (DOMAIN base) \cup (DOMAIN over) |->
     IF k \in DOMAIN over THEN over[k] ELSE base[k]]

\* the startup effect with the build-time key applied whenever nothing was
\* parsed, stored text or not
loadedSettings_KeyOverMalformed(API_KEY) ==
  IF localStorage # NO_ITEM /\ JSONWellFormed(localStorage)
  THEN SpreadMerge(DEFAULT_SETTINGS, JSONParse(localStorage))
  ELSE IF API_KEY # ""
       THEN [settings EXCEPT !.llm.apiKey = API_KEY, !.tts.apiKey = API_KEY]
       ELSE settings

\* the startup effect: read the stored settings once
\* API_KEY is process.env.API_KEY, fixed at build time and read only here
loadedSettings(API_KEY) ==
  IF localStorage # NO_ITEM
  THEN IF JSONWellFormed(localStorage)
       THEN SpreadMerge(DEFAULT_SETTINGS, JSONParse(localStorage))
       ELSE settings
  ELSE IF API_KEY # ""
       THEN [settings EXCEPT !.llm.apiKey = API_KEY, !.tts.apiKey = API_KEY]
       ELSE settings

LoadSettings ==
  /\ ~isSettingsLoaded
  /\ \E API_KEY \in ApiKeys : settings' = loadedSettings(API_KEY)
  /\ isSettingsLoaded' = TRUE
  /\ UNCHANGED observed
  /\ lastOutcome' = <<>>
  /\ UNCHANGED latestSummaryCall
  /\ lastEvent' = Observe("loadSettings")
  /\ UNCHANGED <<appVars, feedVars, callVars, localStorage>>

handleSaveSettings(newSettings) ==
  /\ settings' = newSettings
  /\ localStorage' = JSONStringify(newSettings)

\* the settings dialog calls onSave with the settings the user entered
SaveSettingsWith(choices) ==
  /\ isSettingsLoaded
  /\ \E newSettings \in choices : handleSaveSettings(newSettings)
  /\ UNCHANGED observed
  /\ lastOutcome' = <<>>
  /\ UNCHANGED latestSummaryCall
  /\ lastEvent' = Observe("saveSettings")
  /\ UNCHANGED <<appVars, feedVars, callVars, isSettingsLoaded>>

SaveSettings == SaveSettingsWith(SavableSettings)

\* the page is reloaded: the component mounts again with its initial state,
\* pending promises and timers of the old page are gone, localStorage stays
Reload ==
  /\ textInput' = <<>>
  /\ summary' = ""
  /\ audioBuffer' = NO_BUFFER
  /\ appState' = IDLE
  /\ errorDetails' = <<>>
  /\ settings' = DEFAULT_SETTINGS
  /\ isSettingsLoaded' = FALSE
  /\ audioContextRef' = NULL
  /\ isFetchingNews' = FALSE
  /\ fetchStatus' = <<>>
  /\ selectedSourceUrl' = ""
  /\ summaryCalls' = {}
  /\ speechCalls' = {}
  /\ fetchCalls' = {}
  /\ timers' = 0
  /\ UNCHANGED <<localStorage, observed>>
  /\ lastOutcome' = <<>>
  /\ latestSummaryCall' = 0
  /\ lastEvent' = Observe("reload")

isConfigMissing == settings.llm.apiKey = ""

\* ---------------------------------------------------- article text input
\* typing into the textarea (disabled while the configuration is missing)
ChangeText ==
  /\ isSettingsLoaded
  /\ ~isConfigMissing
  /\ \E v \in UserTexts : textInput' = v
  /\ UNCHANGED observed
  /\ lastOutcome' = <<>>
  /\ UNCHANGED latestSummaryCall
  /\ lastEvent' = Observe("changeText")
  /\ UNCHANGED <<summary, audioBuffer, appState, errorDetails,
                 settingsVars, feedVars, callVars>>

\* the clear button, rendered while the text is not empty
handleClear(confirmed) ==
  IF confirmed THEN textInput' = <<>> ELSE UNCHANGED textInput

ClickClear ==
  /\ isSettingsLoaded
  /\ textInput # <<>>
  /\ \E confirmed \in BOOLEAN : handleClear(confirmed)
  /\ UNCHANGED observed
  /\ lastOutcome' = <<>>
  /\ UNCHANGED latestSummaryCall
  /\ lastEvent' = Observe("clear")
  /\ UNCHANGED <<summary, audioBuffer, appState, errorDetails,
                 settingsVars, feedVars, callVars>>

\* ---------------------------------------------------------- feed fetcher
\* fetchFeed up to its await: the re-entrancy flag, the status, the request
fetchFeed(url, sourceName) ==
  IF isFetchingNews
  THEN UNCHANGED <<isFetchingNews, fetchStatus, fetchCalls>>
  ELSE /\ isFetchingNews' = TRUE
       /\ fetchStatus' = ConnectingStatus(sourceName)
       /\ fetchCalls' =
            fetchCalls \cup {[id |-> FreshId(fetchCalls), sourceName |-> sourceName]}

\* the disabled condition with the fetching flag left out
SourceControlsDisabled_IgnoresFetching == isConfigMissing

\* the source select and the random button share one disabled condition
SourceControlsDisabled == isFetchingNews \/ isConfigMissing

handleSelectSource(url) ==
  /\ selectedSourceUrl' = url
  /\ IF url # "" /\ HasSource(url)
     THEN fetchFeed(url, FindSource(url).name)
     ELSE UNCHANGED <<isFetchingNews, fetchStatus, fetchCalls>>

\* the user picks an entry of the source select
SelectSource ==
  /\ isSettingsLoaded
  /\ Cardinality(fetchCalls) < MaxOutstanding
  /\ \E url \in ({""} \cup SourceUrls) \ {selectedSourceUrl} :
       IF SourceControlsDisabled
       THEN UNCHANGED <<selectedSourceUrl, isFetchingNews, fetchStatus, fetchCalls>>
       ELSE handleSelectSource(url)
  /\ UNCHANGED observed
  /\ lastOutcome' = <<>>
  /\ UNCHANGED latestSummaryCall
  /\ lastEvent' = Observe(IF SourceControlsDisabled
                          THEN "sourceControlDisabled" ELSE "selectSource")
  /\ UNCHANGED <<appVars, settingsVars, callVars, timers>>

\* otherSources[Math.floor(Math.random() * otherSources.length)] || SOURCES[0]
handleRandomSource(pick) ==
  LET otherSources == SelectSeq(SOURCES, LAMBDA src : src.url # selectedSourceUrl)
      randomSource == IF pick \in 1..Len(otherSources)
                      THEN otherSources[pick] ELSE SOURCES[1]
  IN /\ selectedSourceUrl' = randomSource.url
     /\ fetchFeed(randomSource.url, randomSource.name)

ClickRandomSource ==
  /\ isSettingsLoaded
  /\ Cardinality(fetchCalls) < MaxOutstanding
  /\ IF SourceControlsDisabled
     THEN UNCHANGED <<selectedSourceUrl, isFetchingNews, fetchStatus, fetchCalls>>
     ELSE LET n == Len(SelectSeq(SOURCES, LAMBDA src : src.url # selectedSourceUrl))
          IN \E pick \in 1..(IF n = 0 THEN 1 ELSE n) : handleRandomSource(pick)
  /\ UNCHANGED observed
  /\ lastOutcome' = <<>>
  /\ UNCHANGED latestSummaryCall
  /\ lastEvent' = Observe(IF SourceControlsDisabled
                          THEN "sourceControlDisabled" ELSE "randomSource")
  /\ UNCHANGED <<appVars, settingsVars, callVars, timers>>

\* the response checks with the response.ok test left out
FeedSucceeded_IgnoresStatus(outcome) ==
  /\ ~outcome.threw
  /\ ~outcome.response.isNull
  /\ Len(outcome.response.articles) # 0

\* whether fetchFeed reaches onChange: no throw, response.ok, a non-empty array
FeedSucceeded(outcome) ==
  /\ ~outcome.threw
  /\ outcome.response.ok
  /\ ~outcome.response.isNull
  /\ Len(outcome.response.articles) # 0

\* fetchFeed after its await, writing the assembled text after the text the
\* buffer holds instead of in its place
fetchFeedSettled_Appends(call, outcome) ==
  /\ IF FeedSucceeded(outcome)
     THEN /\ textInput' =
               textInput \o AssembleFeed(call.sourceName, outcome.response.articles)
          /\ fetchStatus' = <<>>
          /\ timers' = timers
     ELSE /\ fetchStatus' = STATUS_FAILED
          /\ timers' = timers + 1
          /\ UNCHANGED textInput
  /\ isFetchingNews' = FALSE
  /\ fetchCalls' = fetchCalls \ {call}

\* fetchFeed after its await: try body, catch and finally
fetchFeedSettled(call, outcome) ==
  /\ IF FeedSucceeded(outcome)
     THEN /\ textInput' = AssembleFeed(call.sourceName, outcome.response.articles)
          /\ fetchStatus' = <<>>
          /\ timers' = timers
     ELSE /\ fetchStatus' = STATUS_FAILED
          /\ timers' = timers + 1
          /\ UNCHANGED textInput
  /\ isFetchingNews' = FALSE
  /\ fetchCalls' = fetchCalls \ {call}

\* a feed request settles with one of the given outcomes
FetchSettleWith(outcomes) ==
  /\ \E call \in fetchCalls : \E outcome \in outcomes :
       /\ FeedSucceeded(outcome) \/ timers < MaxTimers
       /\ fetchFeedSettled(call, outcome)
       /\ lastOutcome' = ObserveOutcome(outcome)
  /\ UNCHANGED latestSummaryCall
  /\ UNCHANGED observed
  /\ lastEvent' = Observe("fetchSettled")
  /\ UNCHANGED <<summary, audioBuffer, appState, errorDetails,
                 settingsVars, callVars, selectedSourceUrl>>

FetchSettle == FetchSettleWith(FeedOutcomes)

\* the setTimeout(() => setFetchStatus(''), 3000) armed by a failed fetch
StatusTimerFires ==
  /\ timers > 0
  /\ fetchStatus' = <<>>
  /\ timers' = timers - 1
  /\ UNCHANGED observed
  /\ lastOutcome' = <<>>
  /\ UNCHANGED latestSummaryCall
  /\ lastEvent' = Observe("statusTimer")
  /\ UNCHANGED <<appVars, settingsVars, callVars,
                 isFetchingNews, selectedSourceUrl, fetchCalls>>

\* ----------------------------------------------------- summary and audio
\* the generate-summary button with its disabled prop left out of the condition
GenerateSummaryDisabled_IgnoresConfig ==
  \/ Trim(textInput) = <<>>
  \/ appState = GENERATING_SUMMARY

\* disabled={!value.trim() || isGeneratingSummary || disabled}
GenerateSummaryDisabled ==
  \/ Trim(textInput) = <<>>
  \/ appState = GENERATING_SUMMARY
  \/ isConfigMissing

\* handleGenerateSummary without its setAudioBuffer(null)
handleGenerateSummary_KeepsAudio ==
  IF Trim(textInput) = <<>>
  THEN UNCHANGED <<appVars, summaryCalls>>
  ELSE /\ errorDetails' = <<>>
       /\ appState' = GENERATING_SUMMARY
       /\ summary' = ""
       /\ summaryCalls' =
            summaryCalls \cup {[id |-> FreshId(summaryCalls),
                                language |-> settings.language]}
       /\ UNCHANGED <<textInput, audioBuffer>>

\* handleGenerateSummary up to its await
handleGenerateSummary ==
  IF Trim(textInput) = <<>>
  THEN UNCHANGED <<appVars, summaryCalls>>
  ELSE /\ errorDetails' = <<>>
       /\ appState' = GENERATING_SUMMARY
       /\ summary' = ""
       /\ audioBuffer' = NO_BUFFER
       /\ summaryCalls' =
            summaryCalls \cup {[id |-> FreshId(summaryCalls),
                                language |-> settings.language]}
       /\ UNCHANGED textInput

ClickGenerateSummary ==
  /\ isSettingsLoaded
  /\ GenerateSummaryDisabled \/ Cardinality(summaryCalls) < MaxOutstanding
  /\ IF GenerateSummaryDisabled
     THEN UNCHANGED <<appVars, summaryCalls>>
     ELSE handleGenerateSummary
  /\ UNCHANGED observed
  /\ lastOutcome' = <<>>
  /\ latestSummaryCall' = ObserveStarted(summaryCalls, summaryCalls')
  /\ lastEvent' = Observe("generateSummary")
  /\ UNCHANGED <<settingsVars, feedVars, speechCalls, audioContextRef>>

\* handleError, with the settings of the render whose handler made the call
handleError(error, language) ==
  LET raw == IF error.message # <<>> THEN error.message ELSE StringOfError(error)
      msg == IF Includes(raw, "SAFETY")
             THEN (IF language = "zh-CN" THEN SAFETY_ZH ELSE SAFETY_EN)
             ELSE raw
  IN /\ appState' = ERROR
     /\ errorDetails' = msg

\* handleGenerateSummary after its await, the call having resolved
summaryResolved(call, summaryText) ==
  /\ summary' = summaryText
  /\ appState' = READY
  /\ UNCHANGED <<textInput, audioBuffer, errorDetails>>

SummaryResolves ==
  /\ \E call \in summaryCalls :
       /\ \E summaryText \in Summaries : summaryResolved(call, summaryText)
       /\ summaryCalls' = summaryCalls \ {call}
  /\ UNCHANGED observed
  /\ lastOutcome' = <<>>
  /\ UNCHANGED latestSummaryCall
  /\ lastEvent' = Observe("summaryResolved")
  /\ UNCHANGED <<settingsVars, feedVars, speechCalls, audioContextRef>>

SummaryRejects ==
  /\ \E call \in summaryCalls :
       /\ \E error \in Errors : handleError(error, call.language)
       /\ summaryCalls' = summaryCalls \ {call}
  /\ UNCHANGED observed
  /\ lastOutcome' = <<>>
  /\ UNCHANGED latestSummaryCall
  /\ lastEvent' = Observe("summaryRejected")
  /\ UNCHANGED <<textInput, summary, audioBuffer,
                 settingsVars, feedVars, speechCalls, audioContextRef>>

\* the generate-audio button: rendered in the reading view while no buffer is
\* held, disabled while GENERATING_AUDIO
GenerateAudioEnabled ==
  /\ appState \in {READY, GENERATING_AUDIO}
  /\ ~audioBuffer.present
  /\ appState # GENERATING_AUDIO

\* handleGenerateAudio without its first line, if (!summary) return
handleGenerateAudio_NoSummaryGuard ==
  /\ audioContextRef' = "context"
  /\ appState' = GENERATING_AUDIO
  /\ speechCalls' =
       speechCalls \cup {[id |-> FreshId(speechCalls), text |-> summary,
                          language |-> settings.language]}
  /\ UNCHANGED <<textInput, summary, audioBuffer, errorDetails>>

\* handleGenerateAudio up to its await
handleGenerateAudio ==
  IF summary = ""
  THEN UNCHANGED <<appVars, speechCalls, audioContextRef>>
  ELSE /\ audioContextRef' = "context"
       /\ appState' = GENERATING_AUDIO
       /\ speechCalls' =
            speechCalls \cup {[id |-> FreshId(speechCalls), text |-> summary,
                               language |-> settings.language]}
       /\ UNCHANGED <<textInput, summary, audioBuffer, errorDetails>>

ClickGenerateAudio ==
  /\ isSettingsLoaded
  /\ ~GenerateAudioEnabled \/ summary = "" \/ Cardinality(speechCalls) < MaxOutstanding
  /\ IF GenerateAudioEnabled
     THEN handleGenerateAudio
     ELSE UNCHANGED <<appVars, speechCalls, audioContextRef>>
  /\ UNCHANGED observed
  /\ lastOutcome' = <<>>
  /\ UNCHANGED latestSummaryCall
  /\ lastEvent' = Observe("generateAudio")
  /\ UNCHANGED <<settingsVars, feedVars, summaryCalls>>

\* handleGenerateAudio after its await, the call having resolved
speechResolved(call) ==
  /\ audioBuffer' = BufferOf(call.text)
  /\ appState' = READY
  /\ UNCHANGED <<textInput, summary, errorDetails>>

SpeechResolves ==
  /\ \E call \in speechCalls :
       /\ speechResolved(call)
       /\ speechCalls' = speechCalls \ {call}
  /\ UNCHANGED observed
  /\ lastOutcome' = <<>>
  /\ UNCHANGED latestSummaryCall
  /\ lastEvent' = Observe("speechResolved")
  /\ UNCHANGED <<settingsVars, feedVars, summaryCalls, audioContextRef>>

SpeechRejects ==
  /\ \E call \in speechCalls :
       /\ \E error \in Errors : handleError(error, call.language)
       /\ speechCalls' = speechCalls \ {call}
  /\ UNCHANGED observed
  /\ lastOutcome' = <<>>
  /\ UNCHANGED latestSummaryCall
  /\ lastEvent' = Observe("speechRejected")
  /\ UNCHANGED <<textInput, summary, audioBuffer,
                 settingsVars, feedVars, summaryCalls, audioContextRef>>

\* ---------------------------------------------------------- specification
Next ==
  \/ LoadSettings
  \/ SaveSettings
  \/ ChangeText
  \/ ClickClear
  \/ SelectSource
  \/ ClickRandomSource
  \/ FetchSettle
  \/ StatusTimerFires
  \/ ClickGenerateSummary
  \/ SummaryResolves
  \/ SummaryRejects
  \/ ClickGenerateAudio
  \/ SpeechResolves
  \/ SpeechRejects

\* the whole program, observing the two generate buttons
Init == InitProgram /\ observed = {"generateSummary", "generateAudio"}

Spec == Init /\ [][Next]_vars

\* the whole program, observing which summarization call was started last
InitOrder ==
  /\ InitProgram
  /\ observed = {"summaryStarted"}

SpecOrder == InitOrder /\ [][Next]_vars

\* the same program, observing the feed handlers of the article input
InitFeed ==
  /\ InitProgram
  /\ observed = {"selectSource", "randomSource", "sourceControlDisabled",
                 "fetchSettled", "statusTimer"}

SpecFeed == InitFeed /\ [][Next]_vars

\* the whole program with any settings object saved, and page reloads
NextSettings ==
  \/ LoadSettings
  \/ SaveSettingsWith(AllSettings)
  \/ Reload
  \/ ChangeText
  \/ ClickClear
  \/ SelectSource
  \/ ClickRandomSource
  \/ FetchSettle
  \/ StatusTimerFires
  \/ ClickGenerateSummary
  \/ SummaryResolves
  \/ SummaryRejects
  \/ ClickGenerateAudio
  \/ SpeechResolves
  \/ SpeechRejects

InitSettings ==
  /\ InitProgram
  /\ observed = {"loadSettings", "saveSettings", "reload"}

SpecSettings == InitSettings /\ [][NextSettings]_vars

\* the feed fetcher alone, answered with article lists of every length up to
\* MaxArticles
NextAssemble ==
  \/ LoadSettings
  \/ SelectSource
  \/ ClickRandomSource
  \/ FetchSettleWith(AssembleOutcomes)

InitAssemble ==
  /\ InitProgram
  /\ observed = {"fetchSettled"}

SpecAssemble == InitAssemble /\ [][NextAssemble]_vars

\* the whole program, observing the edits of the article text and the
\* settling of feed requests
InitOverwrite ==
  /\ InitProgram
  /\ observed = {"changeText", "clear", "fetchSettled"}

SpecOverwrite == InitOverwrite /\ [][Next]_vars

\* the whole program, observing the settling of feed requests, with the armed
\* status timers eventually firing
InitFeedLive ==
  /\ InitProgram
  /\ observed = {"fetchSettled"}

SpecFeedLive == InitFeedLive /\ [][Next]_vars /\ WF_vars(StatusTimerFires)

\* ---------------------------------------------------------------- claims
\* a step that starts a summarization call, a speech call
StartsSummaryCall == summaryCalls' \ summaryCalls # {}

StartsSpeechCall == speechCalls' \ speechCalls # {}

\* a step in which a summarization call, a speech call settles
SettlesSummaryCall == summaryCalls' # summaryCalls /\ summaryCalls' \subseteq summaryCalls

SettlesSpeechCall == speechCalls' # speechCalls /\ speechCalls' \subseteq speechCalls

\* empty or whitespace-only, said without trim
IsBlank(text) == \A i \in 1..Len(text) : IsSpace(text[i])

\* C1: a held audio buffer was synthesized from the summary text that is
\* currently held.
C1_AudioMatchesSummary == audioBuffer.present => audioBuffer.from = summary

\* C2: a summarization call and a speech call are never outstanding at the
\* same time.
C2_NeverBothOutstanding == ~(summaryCalls # {} /\ speechCalls # {})

\* C3: at most one summarization call is outstanding at any time.
C3_OneSummarizationOutstanding == Cardinality(summaryCalls) <= 1

\* C4: at most one speech call is outstanding at any time.
C4_OneSpeechOutstanding == Cardinality(speechCalls) <= 1

\* C5: a generate-summary click that is accepted (button enabled, text not
\* blank) starts exactly one summarization call, and the step that starts a
\* summarization call leaves the summary empty, the audio buffer absent, the
\* error message empty and the state generating-summary.
C5_AcceptedSummaryResets ==
  [][/\ (lastEvent' = "generateSummary" /\ ~GenerateSummaryDisabled)
          => /\ StartsSummaryCall
             /\ Cardinality(summaryCalls') = Cardinality(summaryCalls) + 1
     /\ StartsSummaryCall
          => /\ summary' = ""
             /\ ~audioBuffer'.present
             /\ errorDetails' = <<>>
             /\ appState' = GENERATING_SUMMARY]_vars

\* C5 witness: a summarization was just accepted while a speech call for the
\* previous summary is still in flight.
C5_Witness ==
  /\ lastEvent = "generateSummary"
  /\ appState = GENERATING_SUMMARY
  /\ summaryCalls # {}
  /\ speechCalls # {}
  /\ summary = ""
  /\ ~audioBuffer.present

\* C6: when a summarization call resolves, the resulting state is ready with
\* the audio buffer absent.
C6_ResolvedSummaryHasNoAudio ==
  [][(SettlesSummaryCall /\ appState' = READY) => ~audioBuffer'.present]_vars

\* C7: once the state is error, it stays error and the message is unchanged
\* in every step that is not an accepted generate-summary click.
C7_ErrorPersistsUntilRetry ==
  [][(appState = ERROR /\ ~StartsSummaryCall)
       => (appState' = ERROR /\ errorDetails' = errorDetails)]_vars

\* C8: a step that starts a speech call is a generate-audio click made while
\* a non-empty summary is held, the call reads that summary and the state
\* becomes generating-audio; a non-empty summary only ever appears when a
\* summarization call settles; and a generate-audio click made while the
\* summary is empty changes neither state, summary, audio buffer, error
\* message nor the calls in flight.
C8_AudioNeedsSummary ==
  [][/\ StartsSpeechCall
          => /\ lastEvent' = "generateAudio"
             /\ summary # ""
             /\ \A c \in speechCalls' \ speechCalls : c.text = summary
             /\ appState' = GENERATING_AUDIO
     /\ (summary' # summary /\ summary' # "") => SettlesSummaryCall
     /\ (lastEvent' = "generateAudio" /\ summary = "")
          => UNCHANGED <<appState, summary, audioBuffer, errorDetails,
                         speechCalls, audioContextRef>>]_vars

\* C8 witness: the generate-audio button was enabled (ready, no buffer) and
\* clicked while the summary was empty, and no call was started.
C8_Witness ==
  /\ lastEvent = "generateAudio"
  /\ appState = READY
  /\ ~audioBuffer.present
  /\ summary = ""
  /\ speechCalls = {}

\* C9: while the article text is empty or whitespace-only no step starts a
\* summarization call, and a generate-summary click changes neither state,
\* summary, audio buffer nor error message.
C9_BlankTextNoEffect ==
  [][IsBlank(textInput)
       => /\ ~StartsSummaryCall
          /\ lastEvent' = "generateSummary"
               => UNCHANGED <<appState, summary, audioBuffer, errorDetails,
                              summaryCalls>>]_vars

\* C9 witness: generate-summary was clicked on whitespace-only text with the
\* configuration present, and the state is still idle.
C9_Witness ==
  /\ lastEvent = "generateSummary"
  /\ textInput = <<" ">>
  /\ ~isConfigMissing
  /\ appState = IDLE
  /\ summaryCalls = {}

\* C10: a summarization call starts only with non-blank text and the API key
\* present (and moves the state to generating-summary); while the API key is
\* missing no step starts a summarization or a feed fetch, and the article
\* text changes only when a feed request settles.
C10_NoKeyNothingStartsNoEdit ==
  [][/\ StartsSummaryCall
          => /\ ~IsBlank(textInput)
             /\ ~isConfigMissing
             /\ appState' = GENERATING_SUMMARY
     /\ isConfigMissing
          => /\ ~StartsSummaryCall
             /\ fetchCalls' \subseteq fetchCalls
             /\ fetchCalls' = fetchCalls => textInput' = textInput]_vars

\* C10 (amended): a summarization call starts only with non-blank text and
\* the API key present (and moves the state to generating-summary); while the
\* API key is missing no step starts a summarization or a feed fetch, and
\* apart from a settling feed request the only change to the article text is
\* the clear button emptying it.
C10_NoKeyNothingStartsOnlyClear ==
  [][/\ StartsSummaryCall
          => /\ ~IsBlank(textInput)
             /\ ~isConfigMissing
             /\ appState' = GENERATING_SUMMARY
     /\ isConfigMissing
          => /\ ~StartsSummaryCall
             /\ fetchCalls' \subseteq fetchCalls
             /\ fetchCalls' = fetchCalls => textInput' \in {textInput, <<>>}]_vars

\* C10 witness: generate-summary was clicked with non-blank text while the
\* API key is missing, and nothing started.
C10_Witness ==
  /\ lastEvent = "generateSummary"
  /\ isSettingsLoaded
  /\ isConfigMissing
  /\ ~IsBlank(textInput)
  /\ appState = IDLE
  /\ summaryCalls = {}


\* ---------------------------------------------------------- feed claims
\* C11: at most one feed request is outstanding, the fetching flag is set
\* exactly while one is, and a click on the source select or on the random
\* button while the flag is set changes neither the selection, the flag, the
\* status nor the outstanding requests
C11_NoOverlappingFetch ==
  /\ [](Cardinality(fetchCalls) <= 1 /\ (isFetchingNews <=> fetchCalls # {}))
  /\ [][(isFetchingNews /\ lastEvent' \in {"selectSource", "randomSource",
                                            "sourceControlDisabled"})
         => UNCHANGED <<selectedSourceUrl, isFetchingNews, fetchStatus,
                        fetchCalls>>]_vars

\* a source control was clicked while a feed request was outstanding
C11_Witness ==
  /\ lastEvent = "sourceControlDisabled"
  /\ isFetchingNews
  /\ Cardinality(fetchCalls) = 1


\* a feed request that threw, was answered with a status that is not OK, or
\* with a missing or empty article list
FailedOutcome(outcome) ==
  \/ outcome.threw
  \/ ~outcome.response.ok
  \/ outcome.response.isNull
  \/ outcome.response.articles = <<>>

\* C12: a feed request that throws, or is answered with a status that is not
\* OK or with a missing or empty article list, leaves the article text
\* unchanged, sets the status to the failure message and arms one timer; a
\* timer that fires clears the status, and a failure status is always cleared
\* eventually
C12_FailedFetchKeepsText ==
  /\ [][(lastOutcome' # <<>> /\ FailedOutcome(lastOutcome'[1]))
         => /\ UNCHANGED textInput
            /\ fetchStatus' = STATUS_FAILED
            /\ timers' = timers + 1
            /\ ~isFetchingNews']_vars
  /\ [][timers' < timers => fetchStatus' = <<>>]_vars
  /\ [](fetchStatus = STATUS_FAILED => timers > 0)
  /\ (fetchStatus = STATUS_FAILED) ~> (fetchStatus = <<>>)

\* a request answered with a status that is not OK has just failed over text
\* the user had typed
C12_Witness ==
  /\ lastOutcome # <<>>
  /\ ~lastOutcome[1].threw
  /\ ~lastOutcome[1].response.ok
  /\ lastOutcome[1].response.articles # <<>>
  /\ fetchStatus = STATUS_FAILED
  /\ textInput = <<"a">>
  /\ timers = 1


\* the positions of a token in a text
PositionsOf(text, token) == {i \in 1..Len(text) : text[i] = token}

\* the body of a titled block: the trimmed content, or the placeholder
BlockBody(article) ==
  IF \A i \in 1..Len(article.content) : article.content[i] = " "
  THEN <<"Content not available.">>
  ELSE LET first == CHOOSE i \in 1..Len(article.content) :
                      /\ article.content[i] # " "
                      /\ \A j \in 1..(i - 1) : article.content[j] = " "
           last == CHOOSE i \in 1..Len(article.content) :
                     /\ article.content[i] # " "
                     /\ \A j \in (i + 1)..Len(article.content) : article.content[j] = " "
       IN SubSeq(article.content, first, last)

\* text is the source label, then exactly Min(5, n) titled blocks built from
\* the first articles in order and numbered from 1, with the separator
\* between adjacent blocks only
WellAssembled(text, sourceName, articles) ==
  LET k == IF Len(articles) < 5 THEN Len(articles) ELSE 5
      headers == PositionsOf(text, "# Article ")
      seps == PositionsOf(text, "\n\n---\n\n")
      rank(p) == Cardinality({q \in headers : q <= p})
      blockEnd(p) == IF \E q \in seps : q > p
                     THEN (CHOOSE q \in seps : q > p /\ \A r \in seps : r > p => q <= r) - 1
                     ELSE Len(text)
  IN /\ Len(text) >= 3
     /\ SubSeq(text, 1, 3) = <<"[Source: ", sourceName, "]\n\n">>
     /\ Cardinality(headers) = k
     /\ Cardinality(seps) = k - 1
     /\ 4 \in headers
     /\ \A q \in seps : q + 1 \in headers
     /\ \A p \in headers :
          /\ p = 4 \/ (p - 1) \in seps
          /\ SubSeq(text, p, blockEnd(p)) =
               <<"# Article ", ToString(rank(p)), ": ", articles[rank(p)].title, "\n\n">>
                 \o BlockBody(articles[rank(p)])

\* C13: after a feed request was answered OK with n >= 1 articles, the
\* article text is the label of the selected source followed by exactly
\* Min(5, n) titled blocks, built from the first Min(5, n) articles in order
\* and numbered from 1, with the separator between adjacent blocks only
C13_AssembledText ==
  lastOutcome # <<>>
    => /\ HasSource(selectedSourceUrl)
       /\ WellAssembled(textInput, FindSource(selectedSourceUrl).name,
                         lastOutcome[1].response.articles)

\* a response with more than five articles, one of them blank, was assembled
C13_Witness ==
  /\ lastOutcome # <<>>
  /\ Len(lastOutcome[1].response.articles) = 6
  /\ lastOutcome[1].response.articles[2].content = <<" ">>
  /\ Cardinality(PositionsOf(textInput, "# Article ")) = 5



\* C17: when a feed request is answered OK with a non-empty article list, the
\* article text afterwards is the assembled text and nothing else, whatever
\* the buffer held when the answer arrived
C17_SuccessOverwrites ==
  [][(lastOutcome' # <<>> /\ ~FailedOutcome(lastOutcome'[1]))
       => /\ lastOutcome'[2] = textInput
          /\ HasSource(selectedSourceUrl)
          /\ WellAssembled(textInput', FindSource(selectedSourceUrl).name,
                            lastOutcome'[1].response.articles)]_vars

\* an answer has replaced text that the user typed while the request was
\* outstanding
C17_Witness ==
  /\ lastOutcome # <<>>
  /\ ~FailedOutcome(lastOutcome[1])
  /\ lastOutcome[2] = <<"a">>
  /\ lastOutcome[3] = "changeText"
  /\ textInput # <<"a">>
  /\ PositionsOf(textInput, "a") = {Len(textInput)}

\* an answer has replaced the empty text left by the clear button, pressed
\* while the request was outstanding
C17_WitnessCleared ==
  /\ lastOutcome # <<>>
  /\ ~FailedOutcome(lastOutcome[1])
  /\ lastOutcome[2] = <<>>
  /\ lastOutcome[3] = "clear"
  /\ textInput # <<>>

\* ------------------------------------------------------ settings claims
\* C14: when the startup load has run over text that handleSaveSettings
\* stored for a settings object S, the settings equal S
C14_SaveLoadRoundTrip ==
  lastEvent = "loadSettings"
    => \A S \in AllSettings : localStorage = JSONStringify(S) => settings = S

\* settings that differ from the defaults in every field were saved, the page
\* was reloaded and the startup load has brought them back
C14_Witness ==
  /\ lastEvent = "loadSettings"
  /\ isSettingsLoaded
  /\ settings = [language |-> "en", llm |-> [apiKey |-> "key"], tts |-> [apiKey |-> ""]]
  /\ localStorage = JSONStringify(settings)


\* C15: the startup load over malformed stored text leaves the settings at
\* the defaults, shows no error (the state stays idle, the error text empty)
\* and completes; whenever any stored text exists the loaded settings are the
\* defaults or the stored object, whatever the build-time key is
C15_MalformedIgnored ==
  [][lastEvent' = "loadSettings"
       => /\ isSettingsLoaded'
          /\ appState' = IDLE /\ errorDetails' = <<>>
          /\ localStorage = MALFORMED => settings' = DEFAULT_SETTINGS
          /\ (localStorage # NO_ITEM /\ localStorage # MALFORMED)
               => localStorage = JSONStringify(settings')
          /\ settings' # DEFAULT_SETTINGS /\ localStorage # JSONStringify(settings')
               => /\ localStorage = NO_ITEM
                  /\ settings'.llm.apiKey # ""
                  /\ settings'.tts.apiKey = settings'.llm.apiKey
                  /\ settings'.language = DEFAULT_SETTINGS.language]_vars

\* the startup load has run over malformed stored text
C15_Witness ==
  /\ lastEvent = "loadSettings"
  /\ localStorage = MALFORMED
  /\ isSettingsLoaded
  /\ settings = DEFAULT_SETTINGS
  /\ appState = IDLE
  /\ errorDetails = <<>>


\* ------------------------------------------------- error display claims
\* the safety-block message in the given language
SafetyMessage(language) == IF language = "zh-CN" THEN SAFETY_ZH ELSE SAFETY_EN

\* the messages of the rejections that do not mention SAFETY
RawMessages ==
  {IF e.message # <<>> THEN e.message ELSE StringOfError(e) :
     e \in {x \in Errors : ~Includes(x.message, "SAFETY")}}

\* C16: when a summarization or speech call rejects, the displayed error is
\* the raw message of a rejection that does not mention SAFETY, or else the
\* safety-block message in the language the settings hold at that moment
C16_SafetyMessageInCurrentLanguage ==
  [][((SettlesSummaryCall \/ SettlesSpeechCall) /\ appState' = ERROR)
       => errorDetails' \in RawMessages \cup {SafetyMessage(settings.language)}]_vars


\* ----------------------------------------------------- loading claims
\* no remote call of any kind completes in this step
NoCallSettles ==
  /\ summaryCalls \subseteq summaryCalls'
  /\ speechCalls \subseteq speechCalls'
  /\ fetchCalls \subseteq fetchCalls'

\* C18: in a step in which no remote call completes, the state stays
\* generating-summary while a summarization call is outstanding, stays
\* generating-audio while a speech call is outstanding, and isFetchingNews
\* stays set while a feed request is outstanding
C18_HungCallKeepsLoadingState ==
  [][NoCallSettles
       => /\ (appState = GENERATING_SUMMARY /\ summaryCalls # {})
               => appState' = GENERATING_SUMMARY
          /\ (appState = GENERATING_AUDIO /\ speechCalls # {})
               => appState' = GENERATING_AUDIO
          /\ (isFetchingNews /\ fetchCalls # {}) => isFetchingNews']_vars

\* the same without the part about the speech call
SummaryAndFeedStayLoading ==
  [][NoCallSettles
       => /\ (appState = GENERATING_SUMMARY /\ summaryCalls # {})
               => appState' = GENERATING_SUMMARY
          /\ (isFetchingNews /\ fetchCalls # {}) => isFetchingNews']_vars

\* whenever the state is ready or generating-audio, the summary is not empty
ReadingViewHasSummary ==
  appState \in {READY, GENERATING_AUDIO} => summary # ""

\* C19: no step enters a state that is ready or generating-audio with an
\* empty summary, unless it is the summarizer answering (with an empty text)
C19_ReadingViewHasSummary ==
  [][(appState' \in {READY, GENERATING_AUDIO} /\ summary' = "")
       => (appState \in {READY, GENERATING_AUDIO} /\ summary = "")
          \/ SettlesSummaryCall]_vars


\* the status a fetch shows from its start to its settling
IsConnectingStatus(status) ==
  \E i \in 1..Len(SOURCES) : status = ConnectingStatus(SOURCES[i].name)

\* C20: a status timer that fires while a newer fetch shows its
\* "Connecting to ..." status leaves that status in place
C20_TimerKeepsNewerStatus ==
  [][(timers' < timers /\ IsConnectingStatus(fetchStatus))
       => fetchStatus' = fetchStatus]_vars


\* ---------------------------------------------------- ordering claims
\* C21: a summarization call that resolves with a non-empty summary, making
\* the state ready, is the call that was started last
C21_SummaryFromLatestRequest ==
  [][(SettlesSummaryCall /\ appState' = READY /\ summary' # "")
       => \A c \in summaryCalls \ summaryCalls' : c.id = latestSummaryCall]_vars

====
